---- MODULE Spec2Model ----
(***************************************************************************)
(* A model of the statistics dashboard, the persona error boundary and the *)
(* archetype card of debatemasterai.                                       *)
(*                                                                         *)
(* JavaScript numbers are modelled as exact rationals [num, den] extended  *)
(* with the IEEE specials the code can produce: den = 0 with num = 1 is    *)
(* +Infinity, num = -1 is -Infinity and num = 0 is NaN.  Finite values are *)
(* kept in lowest terms with den > 0, so equal numbers are equal records.  *)
(* The arithmetic is exact: the rounding error of binary doubles (and the  *)
(* sign of zero) is not modelled.                                          *)
(*                                                                         *)
(* An optional value (a possibly undefined field, a nullable state) is a   *)
(* sequence: << >> when absent, <<v>> when present.                        *)
(***************************************************************************)
EXTENDS Integers, Sequences, FiniteSets, TLC

VARIABLES
    \* Dashboard (src/src/components/Dashboard.tsx)
    mounted,        \* has the mount effect run
    stats,          \* useState<UserStats | null>
    history,        \* useState<SessionHistoryItem[]>, most recent first
    topic,          \* useState<string>, a sequence of characters
    selectedStyle,  \* useState<DebateStyle>
    duration,       \* useState<number>
    view,           \* what the last render of the Dashboard displays
    started,        \* the arguments of the last onStartDebate call, if any
    \* PersonaErrorBoundary (src/src/components/PersonaErrorBoundary.tsx)
    hasError,
    error,
    errorInfo,
    onResetProp,    \* is props.onReset provided
    onResetCalls,   \* how often props.onReset has been invoked
    screen,         \* what the last render of the boundary displays
    \* Persona page and ArchetypeCard (src/unnamed/part_000)
    archetypes,     \* the props of each card: archetype and isActive
    cards,          \* what the last render of each card displays
    clicked         \* the card whose onClick was invoked last, if any

dashVars == <<mounted, stats, history, topic, selectedStyle, duration, view, started>>
boundaryVars == <<hasError, error, errorInfo, onResetProp, onResetCalls, screen>>
cardVars == <<archetypes, cards, clicked>>
vars == <<dashVars, boundaryVars, cardVars>>

-----------------------------------------------------------------------------
(* Bounds of the model *)

MaxLen == 11        \* longest enumerated history
MaxTotal == 3       \* largest persisted totalSessions
MaxFormLen == 4     \* longest history loaded under the start form
MaxFragments == 2   \* fragments making up an error message
MaxResetCalls == 2  \* onReset invocations followed
NumArchetypes == 3  \* archetypes in the catalog

-----------------------------------------------------------------------------
(* JavaScript values *)

Undefined == << >>
Null == << >>
Some(v) == <<v>>

Abs(n) == IF n < 0 THEN -n ELSE n
Sign(n) == IF n < 0 THEN -1 ELSE IF n > 0 THEN 1 ELSE 0

RECURSIVE GCD(_, _)
GCD(a, b) == IF b = 0 THEN a ELSE GCD(b, a % b)

\* The number p/q; q = 0 gives Infinity, -Infinity or NaN by the sign of p.
Num(p, q) ==
    IF q = 0 THEN [num |-> Sign(p), den |-> 0]
    ELSE LET g == GCD(Abs(p), Abs(q))
             s == IF q < 0 THEN -1 ELSE 1
         IN  [num |-> s * (p \div g), den |-> s * (q \div g)]

Whole(n) == [num |-> n, den |-> 1]
NaN == [num |-> 0, den |-> 0]
PosInfinity == [num |-> 1, den |-> 0]
NegInfinity == [num |-> -1, den |-> 0]

IsFinite(x) == x.den # 0
IsInteger(x) == x.den = 1

JSSub(a, b) == Num(a.num * b.den - b.num * a.den, a.den * b.den)
JSMul(a, b) == Num(a.num * b.num, a.den * b.den)
JSDiv(a, b) == Num(a.num * b.den, a.den * b.num)

\* a > b and a < b; every comparison with NaN is false.
JSGreater(a, b) ==
    /\ a # NaN /\ b # NaN
    /\ IF a.den = 0 \/ b.den = 0
       THEN (a = PosInfinity /\ b # PosInfinity) \/ (b = NegInfinity /\ a # NegInfinity)
       ELSE a.num * b.den > b.num * a.den
JSLess(a, b) == JSGreater(b, a)

\* Math.round: the nearest integer, a tie going to +Infinity; NaN and the
\* infinities are returned unchanged.
MathRound(x) ==
    IF x.den = 0 THEN x
    ELSE Whole((2 * x.num + x.den) \div (2 * x.den))

Min(a, b) == IF a < b THEN a ELSE b

\* Array.prototype.slice(start, end) for 0 <= start <= end
Slice(arr, start, end) == SubSeq(arr, Min(start, Len(arr)) + 1, Min(end, Len(arr)))
\* Array.prototype.slice(start)
SliceFrom(arr, start) == SubSeq(arr, Min(start, Len(arr)) + 1, Len(arr))
\* Array.prototype.reverse, applied to a fresh copy
Reverse(arr) == [i \in 1..Len(arr) |-> arr[Len(arr) + 1 - i]]

\* value || 0 for an optional number: undefined (and 0) give 0
OrZero(v) == IF v = Undefined THEN 0 ELSE v[1]

\* arr.reduce((sum, s) => sum + s.score, 0)
RECURSIVE SumScore(_)
SumScore(arr) ==
    IF arr = << >> THEN 0
    ELSE SumScore(SubSeq(arr, 1, Len(arr) - 1)) + arr[Len(arr)].score

\* arr.reduce((sum, s) => sum + (s[field] || 0), 0)
RECURSIVE SumOrZero(_, _)
SumOrZero(arr, field) ==
    IF arr = << >> THEN 0
    ELSE SumOrZero(SubSeq(arr, 1, Len(arr) - 1), field) + OrZero(arr[Len(arr)][field])

-----------------------------------------------------------------------------
(* Inputs of the Dashboard: what the storage service returns *)

Session(sc, voc, cla, per) ==
    [score |-> sc, vocabularyScore |-> voc, clarityScore |-> cla, persuasionScore |-> per]

\* Two kinds of session, enumerated in every order up to MaxLen
Sessions == { Session(0, Undefined, Some(0), Some(100)),
              Session(80, Some(90), Some(45), Undefined) }

\* The worked examples: scores 80, 60, 40, 20 and vocabulary 90, -, 60
ExampleHistory ==
    << Session(80, Some(90), Some(70), Some(50)),
       Session(60, Undefined, Some(70), Undefined),
       Session(40, Some(60), Undefined, Some(100)),
       Session(20, Some(30), Some(10), Undefined) >>

Histories ==
    UNION { [1..n -> Sessions] : n \in 0..MaxLen }
        \cup { ExampleHistory, SubSeq(ExampleHistory, 1, 3) }

UserStats == { [totalSessions |-> t] : t \in 0..MaxTotal }

-----------------------------------------------------------------------------
(* Dashboard: the values computed by a render *)

\* stats && stats.totalSessions > 0 ? Math.round((stats.totalSessions * 0.7) * 100) / 100 : 0
\* (mutant: the rounding applied before the scaling by 100)
winRateRoundedEarly(st) ==
    IF st # Null /\ st[1].totalSessions > 0
    THEN JSDiv(JSMul(MathRound(JSMul(Whole(st[1].totalSessions), Num(7, 10))), Whole(100)), Whole(100))
    ELSE Whole(0)
winRate(st) ==
    IF st # Null /\ st[1].totalSessions > 0
    THEN JSDiv(MathRound(JSMul(JSMul(Whole(st[1].totalSessions), Num(7, 10)), Whole(100))), Whole(100))
    ELSE Whole(0)

\* history.slice(0, 10)
\* (mutant: the window left out)
recentSessionsUnbounded(h) == h
recentSessions(h) == Slice(h, 0, 10)

\* recent.length > 0 ? Math.round(recent.reduce(...) / recent.length) : 0
\* (mutant: the average left unrounded)
avgOfUnrounded(recent, field) ==
    IF Len(recent) > 0
    THEN JSDiv(Whole(SumOrZero(recent, field)), Whole(Len(recent)))
    ELSE Whole(0)
avgOf(recent, field) ==
    IF Len(recent) > 0
    THEN MathRound(JSDiv(Whole(SumOrZero(recent, field)), Whole(Len(recent))))
    ELSE Whole(0)

avgVocabulary(h) == avgOf(recentSessions(h), "vocabularyScore")
avgClarity(h) == avgOf(recentSessions(h), "clarityScore")
avgPersuasion(h) == avgOf(recentSessions(h), "persuasionScore")

\* const halfPoint = Math.floor(history.length / 2)
halfPoint(h) == Len(h) \div 2
\* history.slice(0, halfPoint)
recentHalf(h) == Slice(h, 0, halfPoint(h))
\* history.slice(halfPoint)
\* (mutant: the older half starting one session late)
olderHalfOffByOne(h) == SliceFrom(h, halfPoint(h) + 1)
olderHalf(h) == SliceFrom(h, halfPoint(h))

\* (mutant: the length guard one too small)
calculateImprovementRateFrom3(h) ==
    IF Len(h) < 3 THEN Whole(0)
    ELSE LET recentAvg == JSDiv(Whole(SumScore(recentHalf(h))), Whole(Len(recentHalf(h))))
             olderAvg == JSDiv(Whole(SumScore(olderHalf(h))), Whole(Len(olderHalf(h))))
         IN  MathRound(JSMul(JSDiv(JSSub(recentAvg, olderAvg), olderAvg), Whole(100)))
calculateImprovementRate(h) ==
    IF Len(h) < 4 THEN Whole(0)
    ELSE LET recentAvg == JSDiv(Whole(SumScore(recentHalf(h))), Whole(Len(recentHalf(h))))
             olderAvg == JSDiv(Whole(SumScore(olderHalf(h))), Whole(Len(olderHalf(h))))
         IN  MathRound(JSMul(JSDiv(JSSub(recentAvg, olderAvg), olderAvg), Whole(100)))

\* history.length > 0 ? Math.round(history.reduce(...) / history.length) : 0
\* (mutant: the guard against the empty history left out)
performanceScoreUnguarded(h) ==
    MathRound(JSDiv(Whole(SumScore(h)), Whole(Len(h))))
\* (mutant: the mean truncated instead of rounded)
performanceScoreFloored(h) ==
    IF Len(h) > 0
    THEN Whole(SumScore(h) \div Len(h))
    ELSE Whole(0)
performanceScore(h) ==
    IF Len(h) > 0
    THEN MathRound(JSDiv(Whole(SumScore(h)), Whole(Len(h))))
    ELSE Whole(0)

\* history.length >= 4 && <div>... vs earlier sessions</div>
trendShown(h) == Len(h) >= 4

\* the arrow of the trend indicator
trendArrow(rate) ==
    IF JSGreater(rate, Whole(0)) THEN "up"
    ELSE IF JSLess(rate, Whole(0)) THEN "down" ELSE "flat"

\* The render of the Dashboard for a state of its hooks
DashboardRender(st, h) ==
    LET recent == recentSessions(h)
        improvementRate == calculateImprovementRate(h)
    IN  [ performanceScore |-> performanceScore(h),
          sessions |-> IF st = Null THEN 0 ELSE st[1].totalSessions,
          winRate |-> winRate(st),
          recentList |-> Slice(h, 0, 5),
          improvementRate |-> improvementRate,
          trendShown |-> trendShown(h),
          trendArrow |-> trendArrow(improvementRate),
          chart |-> Reverse(Slice(h, 0, 5)),
          metricsShown |-> Len(recent) > 0,
          metricsAvg |-> MathRound(JSDiv(
              Whole(avgVocabulary(h).num + avgClarity(h).num + avgPersuasion(h).num),
              Whole(3))),
          avgVocabulary |-> avgVocabulary(h),
          avgClarity |-> avgClarity(h),
          avgPersuasion |-> avgPersuasion(h) ]

-----------------------------------------------------------------------------
(* Dashboard: state and operations *)

DashboardInit ==
    /\ mounted = FALSE
    /\ stats = Null
    /\ history = << >>
    /\ topic = << >>
    /\ selectedStyle = "COACH"
    /\ duration = 5
    /\ view = DashboardRender(Null, << >>)
    /\ started = Undefined

\* The mount effect: both setters run in one batch, then the component renders
MountFrom(histories) ==
    /\ ~mounted
    /\ \E loadedStats \in UserStats, loadedHistory \in histories :
          /\ stats' = Some(loadedStats)
          /\ history' = loadedHistory
          /\ view' = DashboardRender(Some(loadedStats), loadedHistory)
    /\ mounted' = TRUE
    /\ UNCHANGED <<topic, selectedStyle, duration, started, boundaryVars, cardVars>>

Mount == MountFrom(Histories)

-----------------------------------------------------------------------------
(* Dashboard: the start form *)

Whitespace == { " ", "\t", "\n" }

\* String.prototype.trim
RECURSIVE TrimStart(_)
TrimStart(str) ==
    IF str # << >> /\ Head(str) \in Whitespace THEN TrimStart(Tail(str)) ELSE str
RECURSIVE TrimEnd(_)
TrimEnd(str) ==
    IF str # << >> /\ str[Len(str)] \in Whitespace
    THEN TrimEnd(SubSeq(str, 1, Len(str) - 1)) ELSE str
Trim(str) == TrimEnd(TrimStart(str))

\* What can be typed: nothing, only whitespace, a topic with whitespace
\* around and inside it
Topics == { << >>, <<" ", "\t">>, <<" ", "a", " ", "i", "\t">> }
Styles == { "COACH", "AGGRESSIVE" }
\* a position of the range input (min 1, max 15) other than the initial 5
Durations == { 15 }

ShortHistories == { h \in Histories : Len(h) <= MaxFormLen }

MountShort == MountFrom(ShortHistories)

\* The history array after a render.  slice, reduce and map do not write
\* to it, and the reverse of the score chart is applied to the copy that
\* history.slice(0, 5) returns.
\* (mutant: the chart reversing the history itself)
historyReversedInPlace(h) == Reverse(h)
historyAfterRender(h) == h

\* A state change of the form renders the component again
RenderAgain ==
    /\ view' = DashboardRender(stats, history)
    /\ history' = historyAfterRender(history)

\* onChange of the topic input
SetTopic(value) ==
    /\ topic' = value
    /\ RenderAgain
    /\ UNCHANGED <<mounted, stats, selectedStyle, duration, started, boundaryVars, cardVars>>

\* onClick of the Coach and Fierce buttons
SetSelectedStyle(style) ==
    /\ selectedStyle' = style
    /\ RenderAgain
    /\ UNCHANGED <<mounted, stats, topic, duration, started, boundaryVars, cardVars>>

\* onChange of the duration slider
SetDuration(value) ==
    /\ duration' = value
    /\ RenderAgain
    /\ UNCHANGED <<mounted, stats, topic, selectedStyle, started, boundaryVars, cardVars>>

\* handleStartDebate
\* (mutant: the check of the trimmed topic left out)
HandleStartDebateUnguarded ==
    /\ started' = Some([topic |-> Trim(topic), style |-> selectedStyle, duration |-> duration])
    /\ UNCHANGED <<mounted, stats, history, topic, selectedStyle, duration, view,
                   boundaryVars, cardVars>>
HandleStartDebate ==
    /\ started' = IF Trim(topic) # << >>
                  THEN Some([topic |-> Trim(topic), style |-> selectedStyle,
                             duration |-> duration])
                  ELSE started
    /\ UNCHANGED <<mounted, stats, history, topic, selectedStyle, duration, view,
                   boundaryVars, cardVars>>

-----------------------------------------------------------------------------
(* PersonaErrorBoundary: strings as sequences of characters *)

UpperCase == <<"A", "B", "C", "D", "E", "F", "G", "H", "I", "J", "K", "L", "M",
               "N", "O", "P", "Q", "R", "S", "T", "U", "V", "W", "X", "Y", "Z">>
LowerCase == <<"a", "b", "c", "d", "e", "f", "g", "h", "i", "j", "k", "l", "m",
               "n", "o", "p", "q", "r", "s", "t", "u", "v", "w", "x", "y", "z">>

\* String.prototype.toLowerCase
ToLowerCase(str) ==
    [i \in 1..Len(str) |->
        IF \E k \in 1..26 : UpperCase[k] = str[i]
        THEN LowerCase[CHOOSE k \in 1..26 : UpperCase[k] = str[i]]
        ELSE str[i]]

\* String.prototype.includes
Includes(str, part) ==
    \E i \in 0..(Len(str) - Len(part)) : SubSeq(str, i + 1, i + Len(part)) = part

Cat(strs) == IF Len(strs) = 0 THEN << >>
             ELSE IF Len(strs) = 1 THEN strs[1]
             ELSE IF Len(strs) = 2 THEN strs[1] \o strs[2]
             ELSE strs[1] \o strs[2] \o strs[3]

\* The pieces error messages are made of: the keywords in several cases,
\* near misses of them, and other text
Fragments ==
    { <<"S", "p", "l", "i", "n", "e">>,
      <<"3", "D">>,
      <<"s", "c", "e", "n", "e">>,
      <<"C", "a", "l", "c", "u", "l", "a", "t", "e">>,
      <<"P", "E", "R", "S", "O", "N", "A">>,
      <<"d", "a", "t", "a">>,
      <<"I", "n", "v", "a", "l", "i", "d">>,
      <<"s", "p", "l", "i", "n">>,
      <<"d", "a", "t">>,
      <<"x", " ">>,
      <<"f", "a", "i", "l", "e", "d">> }

\* error.message of the errors the children throw
Messages ==
    UNION { { Cat(f) : f \in [1..n -> Fragments] } : n \in 0..MaxFragments }

\* What a child can throw: an Error with a message, or null
Thrown == { Some(m) : m \in Messages } \cup { Null }

\* getErrorMessage of PersonaErrorFallback
\* (mutant: the data check made before the 3D check)
getErrorMessageDataFirst(err) ==
    IF err = Null
    THEN [title |-> "Something went wrong", description |-> "fallback"]
    ELSE LET errorMessage == ToLowerCase(err[1])
         IN  IF Includes(errorMessage, <<"d", "a", "t", "a">>) \/ Includes(errorMessage, <<"i", "n", "v", "a", "l", "i", "d">>)
             THEN [title |-> "Data Error", description |-> "data"]
             ELSE IF \/ Includes(errorMessage, <<"s", "p", "l", "i", "n", "e">>)
                     \/ Includes(errorMessage, <<"3", "d">>)
                     \/ Includes(errorMessage, <<"s", "c", "e", "n", "e">>)
             THEN [title |-> "3D Scene Loading Error", description |-> "scene"]
             ELSE IF Includes(errorMessage, <<"c", "a", "l", "c", "u", "l", "a", "t", "e">>) \/ Includes(errorMessage, <<"p", "e", "r", "s", "o", "n", "a">>)
             THEN [title |-> "Persona Calculation Error", description |-> "calculation"]
             ELSE [title |-> "Unexpected Error",
                   description |-> IF err[1] = << >> THEN "fallback" ELSE "message"]
getErrorMessage(err) ==
    IF err = Null
    THEN [title |-> "Something went wrong", description |-> "fallback"]
    ELSE LET errorMessage == ToLowerCase(err[1])
         IN  IF \/ Includes(errorMessage, <<"s", "p", "l", "i", "n", "e">>)
                \/ Includes(errorMessage, <<"3", "d">>)
                \/ Includes(errorMessage, <<"s", "c", "e", "n", "e">>)
             THEN [title |-> "3D Scene Loading Error", description |-> "scene"]
             ELSE IF Includes(errorMessage, <<"c", "a", "l", "c", "u", "l", "a", "t", "e">>) \/ Includes(errorMessage, <<"p", "e", "r", "s", "o", "n", "a">>)
             THEN [title |-> "Persona Calculation Error", description |-> "calculation"]
             ELSE IF Includes(errorMessage, <<"d", "a", "t", "a">>) \/ Includes(errorMessage, <<"i", "n", "v", "a", "l", "i", "d">>)
             THEN [title |-> "Data Error", description |-> "data"]
             ELSE [title |-> "Unexpected Error",
                   description |-> IF err[1] = << >> THEN "fallback" ELSE "message"]

\* PersonaErrorFallback: the title and description, the Try Again button
\* (onReset is always handleReset) and the Back button (if onGoBack is given)
PersonaErrorFallback(err, onGoBack) ==
    [ title |-> getErrorMessage(err).title,
      description |-> getErrorMessage(err).description,
      tryAgain |-> TRUE,
      goBack |-> onGoBack ]

\* render: the fallback if hasError, else the children (no fallback: << >>)
BoundaryRender(hasErr, err, onReset) ==
    IF hasErr THEN Some(PersonaErrorFallback(err, onReset)) ELSE << >>

BoundaryInit ==
    /\ hasError = FALSE
    /\ error = Null
    /\ errorInfo = Null
    /\ onResetProp \in BOOLEAN
    /\ onResetCalls = 0
    /\ screen = BoundaryRender(FALSE, Null, onResetProp)

\* A rendered child throws: getDerivedStateFromError, then componentDidCatch
CatchError ==
    /\ screen = << >>
    /\ \E thrown \in Thrown :
          /\ hasError' = TRUE
          /\ error' = thrown
          /\ errorInfo' = Some("componentStack")
          /\ screen' = BoundaryRender(TRUE, thrown, onResetProp)
    /\ UNCHANGED <<onResetProp, onResetCalls, dashVars, cardVars>>

\* Try Again: handleReset
\* (mutant: the reset leaving the caught error in the state)
HandleResetKeepsError ==
    /\ screen # << >>
    /\ screen[1].tryAgain
    /\ onResetProp => onResetCalls < MaxResetCalls
    /\ hasError' = FALSE
    /\ errorInfo' = Null
    /\ onResetCalls' = IF onResetProp THEN onResetCalls + 1 ELSE onResetCalls
    /\ screen' = BoundaryRender(FALSE, Null, onResetProp)
    /\ UNCHANGED <<error, onResetProp, dashVars, cardVars>>
HandleReset ==
    /\ screen # << >>
    /\ screen[1].tryAgain
    /\ onResetProp => onResetCalls < MaxResetCalls
    /\ hasError' = FALSE
    /\ error' = Null
    /\ errorInfo' = Null
    /\ onResetCalls' = IF onResetProp THEN onResetCalls + 1 ELSE onResetCalls
    /\ screen' = BoundaryRender(FALSE, Null, onResetProp)
    /\ UNCHANGED <<onResetProp, dashVars, cardVars>>

\* Back to Dashboard: props.onReset itself, the state of the boundary kept
GoBack ==
    /\ screen # << >>
    /\ screen[1].goBack
    /\ onResetCalls < MaxResetCalls
    /\ onResetCalls' = onResetCalls + 1
    /\ UNCHANGED <<hasError, error, errorInfo, onResetProp, screen, dashVars, cardVars>>

-----------------------------------------------------------------------------

(* Persona page: the archetype states handed to the cards.  The catalog and
   the classifier are not part of the component; they are modelled from the
   classification contract: an archetype is locked iff one of its
   requirements is unmet, and the active one is the best-scoring unlocked
   archetype, the first in catalog order on a tie. *)

Requirements == { "r1", "r2" }

\* unlockRequirements of an archetype definition: absent, empty or a list
RequirementLists ==
    { Undefined, Some(<< >>), Some(<<"r1">>), Some(<<"r1", "r2">>) }

Catalogs == [1..NumArchetypes -> RequirementLists]
Scores == 0..1

\* the requirements of reqs that are unmet, in their order
RECURSIVE Unmet(_, _)
Unmet(reqs, met) ==
    IF reqs = << >> THEN << >>
    ELSE (IF met[Head(reqs)] THEN << >> ELSE <<Head(reqs)>>) \o Unmet(Tail(reqs), met)

unmetRequirements(def, met) ==
    IF def = Undefined THEN << >> ELSE Unmet(def[1], met)

\* the best match: the unlocked archetype of highest score, the first on a tie
bestMatch(catalog, met, score) ==
    LET unlocked == { i \in 1..NumArchetypes : unmetRequirements(catalog[i], met) = << >> }
    IN  IF unlocked = { } THEN 0
        ELSE CHOOSE i \in unlocked :
                \A j \in unlocked : score[j] < score[i] \/ (score[j] = score[i] /\ i <= j)

\* classify: one state per catalog entry, in catalog order.  isLocked is
\* optional in PersonaArchetype: an unlocked archetype has it false or
\* absent (omit[i]).
classify(catalog, met, score, omit) ==
    [i \in 1..NumArchetypes |->
        LET unmet == unmetRequirements(catalog[i], met)
        IN  [ archetype |->
                [ name |-> i,
                  unlockRequirements |-> catalog[i],
                  isLocked |-> IF unmet # << >> THEN Some(TRUE)
                               ELSE IF omit[i] THEN Undefined ELSE Some(FALSE) ],
              unmetRequirements |-> unmet,
              isActive |-> (i = bestMatch(catalog, met, score)) ]]

-----------------------------------------------------------------------------
(* ArchetypeCard *)

\* archetype.isLocked ?? false
\* (mutant: the default of an absent isLocked inverted)
isLockedDefaultTrue(archetype) ==
    IF archetype.isLocked = Undefined THEN TRUE ELSE archetype.isLocked[1]
isLocked(archetype) ==
    IF archetype.isLocked = Undefined THEN FALSE ELSE archetype.isLocked[1]

\* The render of one card: the attributes of the button and its content
\* (mutant: the button left enabled, with its handler, when locked)
ArchetypeCardAlwaysEnabled(archetype, isActive, onClick) ==
    [ onClick |-> onClick,
      disabled |-> FALSE,
      dimmed |-> isLocked(archetype),
      highlighted |-> isActive,
      ariaLabel |-> IF isLocked(archetype) THEN "locked" ELSE "select",
      ariaPressed |-> isActive,
      ariaDisabled |-> isLocked(archetype),
      content |-> IF isLocked(archetype) THEN "requirements" ELSE "description",
      requirements |-> IF isLocked(archetype) /\ archetype.unlockRequirements # Undefined
                       THEN archetype.unlockRequirements[1] ELSE << >>,
      lockOverlay |-> isLocked(archetype) ]
ArchetypeCardComponent(archetype, isActive, onClick) ==
    [ onClick |-> IF isLocked(archetype) THEN FALSE ELSE onClick,
      disabled |-> isLocked(archetype),
      dimmed |-> isLocked(archetype),
      highlighted |-> isActive,
      ariaLabel |-> IF isLocked(archetype) THEN "locked" ELSE "select",
      ariaPressed |-> isActive,
      ariaDisabled |-> isLocked(archetype),
      content |-> IF isLocked(archetype) THEN "requirements" ELSE "description",
      requirements |-> IF isLocked(archetype) /\ archetype.unlockRequirements # Undefined
                       THEN archetype.unlockRequirements[1] ELSE << >>,
      lockOverlay |-> isLocked(archetype) ]

RenderCards(props) ==
    [i \in 1..Len(props) |-> ArchetypeCardComponent(props[i].archetype, props[i].isActive, TRUE)]

CardInit ==
    /\ archetypes = << >>
    /\ cards = << >>
    /\ clicked = Undefined

\* The page, when shown, classifies and renders one card per archetype
Classify ==
    /\ cards = << >>
    /\ \E catalog \in Catalogs, met \in [Requirements -> BOOLEAN],
          score \in [1..NumArchetypes -> Scores], omit \in [1..NumArchetypes -> BOOLEAN] :
          /\ archetypes' = classify(catalog, met, score, omit)
          /\ cards' = RenderCards(archetypes')
    /\ UNCHANGED <<clicked, dashVars, boundaryVars>>

\* A click on card i: a disabled button raises no event, and an enabled one
\* calls the handler it was given
ClickCard(i) ==
    /\ i \in 1..Len(cards)
    /\ clicked' = IF ~cards[i].disabled /\ cards[i].onClick THEN Some(i) ELSE clicked
    /\ UNCHANGED <<archetypes, cards, dashVars, boundaryVars>>

Init == DashboardInit /\ BoundaryInit /\ CardInit

NextStats == Mount

SpecStats == Init /\ [][NextStats]_vars

NextForm ==
    \/ MountShort
    \/ \E value \in Topics : SetTopic(value)
    \/ \E style \in Styles : SetSelectedStyle(style)
    \/ \E value \in Durations : SetDuration(value)
    \/ HandleStartDebate

SpecForm == Init /\ [][NextForm]_vars

NextCards == Classify \/ \E i \in 1..NumArchetypes : ClickCard(i)

SpecCards == Init /\ [][NextCards]_vars

NextBoundary == CatchError \/ HandleReset \/ GoBack

SpecBoundary == Init /\ [][NextBoundary]_vars

-----------------------------------------------------------------------------
(* Properties of the statistics, checked under SpecStats *)

\* The sum of the scores of h[a..b], by index
RECURSIVE ScoreTotal(_, _, _)
ScoreTotal(h, a, b) ==
    IF b < a THEN 0 ELSE ScoreTotal(h, a, b - 1) + h[b].score

\* The sum of a sub-score over h[1..w], an absent sub-score counting 0
RECURSIVE SubScoreTotal(_, _, _)
SubScoreTotal(h, field, w) ==
    IF w = 0 THEN 0
    ELSE SubScoreTotal(h, field, w - 1)
            + (IF h[w][field] = Undefined THEN 0 ELSE h[w][field][1])

\* x is the integer nearest to p/q (q > 0), a tie going up
IsRoundOf(x, p, q) ==
    /\ x.den = 1
    /\ 2 * x.num * q <= 2 * p + q
    /\ 2 * p + q < 2 * (x.num + 1) * q

TotalSessions == IF stats = Null THEN 0 ELSE stats[1].totalSessions
OlderStart == (Len(history) \div 2) + 1
OlderTotal == ScoreTotal(history, OlderStart, Len(history))
RecentTotal == ScoreTotal(history, 1, Len(history) \div 2)

\* C1: with at least 4 sessions and an older half whose average score is 0,
\* the improvement rate is a finite number, never NaN or an infinity.
C1_ZeroOlderHalfIsFinite ==
    (Len(history) >= 4 /\ OlderTotal = 0) => IsFinite(view.improvementRate)

\* C2 as stated: the overall average of a non-empty history is the exact
\* mean of the scores, with no further rounding.
C2_ExactMean ==
    Len(history) > 0 =>
        view.performanceScore = Num(ScoreTotal(history, 1, Len(history)), Len(history))

\* C2 as amended: the overall average of a non-empty history is the mean of
\* the scores rounded to the nearest integer, a tie going up.
C2_RoundedMean ==
    Len(history) > 0 =>
        IsRoundOf(view.performanceScore, ScoreTotal(history, 1, Len(history)), Len(history))

C2_Witness ==
    /\ mounted
    /\ Len(history) = 3
    /\ ScoreTotal(history, 1, 3) = 80
    /\ view.performanceScore = Whole(27)

\* C3 as stated: winRate is round(n * 0.7 * 100) / 100 for n the length of
\* the history.
C3_WinRateOfHistoryLength ==
    view.winRate = Num(7 * Len(history), 10)

\* C3 as amended: winRate is round(t * 0.7 * 100) / 100 for t the persisted
\* stats.totalSessions (0 while stats is null), whatever the length of the
\* history, and is no smaller than the winRate of any smaller t.
C3_WinRateOfTotalSessions ==
    /\ view.winRate = Num(7 * TotalSessions, 10)
    /\ \A t \in 0..TotalSessions :
          ~JSLess(view.winRate, winRate(Some([totalSessions |-> t])))

C3_Witness ==
    /\ mounted
    /\ TotalSessions = 3
    /\ Len(history) = 2
    /\ view.winRate = Num(21, 10)

\* C4: with at least 4 sessions and a non-zero older-half average, the
\* improvement rate is round(((recentAvg - olderAvg) / olderAvg) * 100) for
\* the means of the first floor(n/2) sessions and of the other n - floor(n/2);
\* the halves are disjoint and cover the history; 80, 60, 40, 20 gives 133.
C4_ImprovementRate ==
    /\ recentHalf(history) \o olderHalf(history) = history
    /\ Len(recentHalf(history)) = Len(history) \div 2
    /\ (Len(history) >= 4 /\ OlderTotal # 0) =>
          LET k == Len(history) \div 2
              m == Len(history) - k
          IN  IsRoundOf(view.improvementRate,
                        100 * (RecentTotal * m - OlderTotal * k), OlderTotal * k)
    /\ history = ExampleHistory => view.improvementRate = Whole(133)

\* an odd length, a rate that is negative and a tie: 20 against 32 is -37.5
C4_Witness ==
    /\ mounted
    /\ Len(history) = 9
    /\ RecentTotal = 80
    /\ OlderTotal = 160
    /\ view.improvementRate = Whole(-37)

\* C5: with fewer than 4 sessions the improvement rate is 0; the trend
\* indicator is shown exactly when there are at least 4 sessions.
C5_ShortHistory ==
    /\ Len(history) < 4 => view.improvementRate = Whole(0)
    /\ view.trendShown <=> Len(history) >= 4

C5_Witness ==
    /\ mounted
    /\ Len(history) = 3
    /\ history[1].score = 80
    /\ history[3].score = 0
    /\ view.improvementRate = Whole(0)
    /\ ~view.trendShown

\* C6: each recent average is round(S / w) over the first w = min(10, n)
\* sessions, an absent sub-score adding 0 to S and still counting in w, and
\* is 0 for the empty window; vocabulary 90, -, 60 gives 50.
C6_RecentAverages ==
    LET w == IF Len(history) < 10 THEN Len(history) ELSE 10
        Holds(shown, field) ==
            IF w = 0 THEN shown = Whole(0)
            ELSE IsRoundOf(shown, SubScoreTotal(history, field, w), w)
    IN  /\ Holds(view.avgVocabulary, "vocabularyScore")
        /\ Holds(view.avgClarity, "clarityScore")
        /\ Holds(view.avgPersuasion, "persuasionScore")
        /\ history = SubSeq(ExampleHistory, 1, 3) => view.avgVocabulary = Whole(50)

\* more sessions than the window, the one outside it with a sub-score, and
\* an absent sub-score inside it
C6_Witness ==
    /\ mounted
    /\ Len(history) = 11
    /\ history[11].vocabularyScore = Some(90)
    /\ history[1].vocabularyScore = Undefined
    /\ SubScoreTotal(history, "vocabularyScore", 10) = 810
    /\ view.avgVocabulary = Whole(81)

\* C7: for the empty history and zero total sessions the overall average
\* and winRate are 0 (a number, not the NaN of a division by the length 0).
C7_EmptyHistory ==
    /\ history = << >> => view.performanceScore = Whole(0)
    /\ TotalSessions = 0 => view.winRate = Whole(0)

C7_Witness ==
    /\ mounted
    /\ history = << >>
    /\ stats = Some([totalSessions |-> 0])
    /\ view.performanceScore = Whole(0)
    /\ view.winRate = Whole(0)

-----------------------------------------------------------------------------
(* Properties of the error boundary, checked under SpecBoundary *)

\* c and d are the same character up to the case of a letter
SameIgnoringCase(c, d) ==
    \/ c = d
    \/ \E k \in 1..26 : {c, d} = {UpperCase[k], LowerCase[k]}

\* word occurs in str, whatever the case of the letters of str
Mentions(str, word) ==
    \E i \in 0..(Len(str) - Len(word)) :
        \A j \in 1..Len(word) : SameIgnoringCase(str[i + j], word[j])

Mentions3D(str) ==
    Mentions(str, <<"s", "p", "l", "i", "n", "e">>) \/ Mentions(str, <<"3", "d">>) \/ Mentions(str, <<"s", "c", "e", "n", "e">>)
MentionsCalculation(str) ==
    Mentions(str, <<"c", "a", "l", "c", "u", "l", "a", "t", "e">>) \/ Mentions(str, <<"p", "e", "r", "s", "o", "n", "a">>)
MentionsData(str) ==
    Mentions(str, <<"d", "a", "t", "a">>) \/ Mentions(str, <<"i", "n", "v", "a", "l", "i", "d">>)

\* C8: the fallback shown for a non-null error is titled by the first
\* category, in the order 3D, calculation, data, whose keyword the message
\* contains in any case of letters, and is the generic one if none does.
C8_ErrorCategory ==
    (screen # << >> /\ error # Null) =>
        LET msg == error[1]
            title == screen[1].title
        IN  /\ title \in { "3D Scene Loading Error", "Persona Calculation Error",
                           "Data Error", "Unexpected Error" }
            /\ title = "3D Scene Loading Error" <=> Mentions3D(msg)
            /\ title = "Persona Calculation Error" <=>
                   (~Mentions3D(msg) /\ MentionsCalculation(msg))
            /\ title = "Data Error" <=>
                   (~Mentions3D(msg) /\ ~MentionsCalculation(msg) /\ MentionsData(msg))

\* a message with a data keyword before a 3D keyword, in mixed case
C8_Witness ==
    /\ hasError
    /\ error = Some(<<"d", "a", "t", "a", "S", "p", "l", "i", "n", "e">>)
    /\ screen # << >>
    /\ screen[1].title = "3D Scene Loading Error"

-----------------------------------------------------------------------------
(* Properties of the archetype cards, checked under SpecCards *)

\* C9: no card is rendered both locked and active, at most one card is
\* active, and none is active when every archetype is locked.
C9_OnlyUnlockedActive ==
    /\ \A i \in 1..Len(cards) : ~(cards[i].ariaPressed /\ cards[i].disabled)
    /\ \A i \in 1..Len(cards) : cards[i].highlighted <=> cards[i].ariaPressed
    /\ \A i, j \in 1..Len(cards) :
          (cards[i].ariaPressed /\ cards[j].ariaPressed) => i = j
    /\ (\A i \in 1..Len(cards) : cards[i].disabled) =>
          (\A i \in 1..Len(cards) : ~cards[i].ariaPressed)

\* a locked card, an active card, and an unlocked card that is not active
\* whose isLocked is absent
C9_Witness ==
    /\ Len(cards) = NumArchetypes
    /\ cards[1].disabled
    /\ cards[2].ariaPressed
    /\ archetypes[2].archetype.isLocked = Undefined
    /\ \E i \in 1..Len(cards) : ~cards[i].disabled /\ ~cards[i].ariaPressed

\* C10: an archetype whose requirement list is empty or absent is not
\* locked, as classified and as its card is rendered.
C10_NoRequirementsNeverLocked ==
    \A i \in 1..Len(cards) :
        archetypes[i].archetype.unlockRequirements \in { Undefined, Some(<< >>) } =>
            /\ archetypes[i].archetype.isLocked # Some(TRUE)
            /\ ~cards[i].disabled
            /\ ~cards[i].ariaDisabled
            /\ ~cards[i].lockOverlay
            /\ cards[i].content = "description"

\* every kind of archetype at once: requirements absent (isLocked absent),
\* requirements empty, and requirements unmet
C10_Witness ==
    /\ Len(cards) = NumArchetypes
    /\ \E i \in 1..Len(cards) :
          /\ archetypes[i].archetype.unlockRequirements = Undefined
          /\ archetypes[i].archetype.isLocked = Undefined
          /\ ~cards[i].disabled
    /\ \E i \in 1..Len(cards) :
          /\ archetypes[i].archetype.unlockRequirements = Some(<< >>)
          /\ ~cards[i].disabled
    /\ \E i \in 1..Len(cards) : cards[i].disabled

-----------------------------------------------------------------------------
(* Range of the recent averages, checked under SpecStats *)

\* every sub-score of the history that is present is an integer in [0, 100]
SubScoresInRange ==
    \A i \in 1..Len(history) :
        \A field \in { "vocabularyScore", "clarityScore", "persuasionScore" } :
            history[i][field] # Undefined => history[i][field][1] \in 0..100

IsPercentage(x) == x.den = 1 /\ x.num \in 0..100

\* C15: with every present sub-score an integer in [0, 100], each recent
\* average is an integer in [0, 100], and so is the combined average shown.
C15_AveragesArePercentages ==
    SubScoresInRange =>
        /\ IsPercentage(view.avgVocabulary)
        /\ IsPercentage(view.avgClarity)
        /\ IsPercentage(view.avgPersuasion)
        /\ view.metricsShown => IsPercentage(view.metricsAvg)

\* averages rounded from fractions (100 / 3 is shown as 33) and a combined
\* average rounded from a fraction ((60 + 30 + 33) / 3 is shown as 41)
C15_Witness ==
    /\ mounted
    /\ Len(history) = 3
    /\ view.avgVocabulary = Whole(60)
    /\ view.avgClarity = Whole(30)
    /\ view.avgPersuasion = Whole(33)
    /\ view.metricsShown
    /\ view.metricsAvg = Whole(41)

-----------------------------------------------------------------------------
(* Recovery of the error boundary, checked under SpecBoundary *)

\* C12: the boundary starts without an error; the fallback is rendered
\* instead of the children exactly while hasError is true; catching an error
\* records it and its errorInfo and renders the fallback for it; nothing but
\* a reset ends that; a reset clears hasError, error and errorInfo, renders
\* the children and invokes onReset once if it is provided, not at all if not.
C12_BoundaryRecovers ==
    /\ ~hasError
    /\ [](hasError <=> screen # << >>)
    /\ [](~hasError => (error = Null /\ errorInfo = Null))
    /\ [][(~hasError /\ hasError') =>
             /\ errorInfo' # Null
             /\ screen' = Some(PersonaErrorFallback(error', onResetProp))
             /\ onResetCalls' = onResetCalls]_vars
    /\ [][(hasError /\ hasError') =>
             (error' = error /\ errorInfo' = errorInfo /\ screen' = screen)]_vars
    /\ [][(hasError /\ ~hasError') =>
             /\ error' = Null
             /\ errorInfo' = Null
             /\ screen' = << >>
             /\ onResetCalls' = onResetCalls + (IF onResetProp THEN 1 ELSE 0)]_vars

\* after one error and one Try Again, with onReset provided and invoked once
C12_Witness ==
    /\ ~hasError
    /\ error = Null
    /\ screen = << >>
    /\ onResetProp
    /\ onResetCalls = 1

-----------------------------------------------------------------------------
(* Selection of archetype cards, checked under SpecCards *)

\* C13: a card whose archetype.isLocked is true is disabled, carries no click
\* handler and is never the card whose onClick was invoked; a card whose
\* isLocked is absent is enabled with its handler; and a click changes the
\* card last selected only to a card that is not locked.
C13_LockedNeverSelected ==
    /\ [](\A i \in 1..Len(cards) :
            archetypes[i].archetype.isLocked = Some(TRUE) =>
                (cards[i].disabled /\ ~cards[i].onClick /\ clicked # Some(i)))
    /\ [](\A i \in 1..Len(cards) :
            archetypes[i].archetype.isLocked = Undefined =>
                (~cards[i].disabled /\ cards[i].onClick))
    /\ [][\A i \in 1..Len(cards) :
            (clicked' = Some(i) /\ clicked # Some(i)) =>
                archetypes[i].archetype.isLocked # Some(TRUE)]_vars

\* the card of an archetype without isLocked was clicked and its onClick
\* invoked, next to a locked card
C13_Witness ==
    /\ Len(cards) = NumArchetypes
    /\ \E i \in 1..Len(cards) :
          /\ archetypes[i].archetype.isLocked = Undefined
          /\ clicked = Some(i)
    /\ \E j \in 1..Len(cards) : archetypes[j].archetype.isLocked = Some(TRUE)

-----------------------------------------------------------------------------
(* Properties of the start form and of re-rendering, checked under SpecForm *)

Blank(str) == \A i \in 1..Len(str) : str[i] \in Whitespace

\* r is str without the whitespace at its two ends
IsTrimOf(r, str) ==
    /\ \E a \in 1..(Len(str) + 1), b \in 0..Len(str) :
          /\ r = SubSeq(str, a, b)
          /\ \A i \in 1..Len(str) : (i < a \/ i > b) => str[i] \in Whitespace
    /\ r # << >> => (r[1] \notin Whitespace /\ r[Len(r)] \notin Whitespace)

\* C14: onStartDebate is invoked only with a topic that is not blank, and
\* then with the trimmed topic and the style and duration selected at that
\* moment; a start while the topic is blank changes nothing.
C14_StartOnlyWithTopic ==
    /\ [](started # Undefined => ~Blank(started[1].topic))
    /\ [][started' # started =>
             /\ ~Blank(topic)
             /\ IsTrimOf(started'[1].topic, topic)
             /\ started'[1].style = selectedStyle
             /\ started'[1].duration = duration
             /\ UNCHANGED <<mounted, stats, history, topic, selectedStyle, duration, view>>]_vars
    /\ [][(Blank(topic) /\ UNCHANGED <<mounted, topic, selectedStyle, duration>>) =>
             UNCHANGED vars]_vars

\* a start after the topic, the style and the duration were all changed
C14_Witness ==
    /\ topic = <<" ", "a", " ", "i", "\t">>
    /\ selectedStyle = "AGGRESSIVE"
    /\ duration = 15
    /\ started = Some([topic |-> <<"a", " ", "i">>, style |-> "AGGRESSIVE", duration |-> 15])

====
